---- MODULE Spec2Model ----
(***************************************************************************)
(* Model of cripto.py: the indicator engine (calculate_indicators), the    *)
(* signal evaluator (check_signal), the notifier (send_telegram_alert),    *)
(* the fetch-with-retry (get_data_with_retry) and the poll loop (main).    *)
(*                                                                         *)
(* Numbers are exact rationals <<n, d>> with d > 0 in lowest terms; the    *)
(* two non-finite results a pandas column can hold are <<0, 0>> (NaN,      *)
(* "undefined") and <<1, 0>> (+inf).                                       *)
(***************************************************************************)
EXTENDS Integers, Sequences, FiniteSets, TLC

VARIABLES
    \* ---- indicator columns applied to one close column (SpecInd)
    close_col,      \* the input close column
    n_par,          \* the span / period parameter
    ema_col,        \* close.ewm(span, adjust=False).mean(), <<>> until computed
    rsi_col,        \* the rsi column, <<>> until computed
    \* ---- one pass of the pipeline on one fetched frame (SpecSignal)
    config,         \* the sidebar globals (TELEGRAM_*, EMA_*, RSI_PERIOD, ...)
    df,             \* the frame: raw columns, then the indicator columns too
    stage,          \* "raw" -> "computed" -> "checked"
    signal,         \* what check_signal returned
    alert,          \* what send_telegram_alert did: "none" (not called),
                    \* "skipped", "failed" or "sent"
    \* ---- the poll loop (Spec); config and df are shared with the above
    pc,             \* where the script run stands
    sym,            \* index in SYMBOLS of the symbol being handled
    attempt,        \* the loop variable of get_data_with_retry
    error_count,    \* main's error_count
    all_data,       \* main's all_data dict
    signals,        \* main's signals dict
    cache,          \* the st.cache_data entries of get_binance_data
    calls,          \* history: per call of get_binance_data made by the
                    \* running get_data_with_retry, whether it gave data
    waits,          \* history: the time.sleep(5) calls of that invocation
    last_eval       \* history: per symbol, the frame and the result of its
                    \* evaluation in the latest cycle

varsInd == <<close_col, n_par, ema_col, rsi_col>>
varsSig == <<config, df, stage, signal, alert>>
varsMain == <<pc, sym, attempt, error_count, all_data, signals, cache, calls, waits, last_eval>>
notInd == <<varsSig, varsMain>>
notSig == <<varsInd, varsMain>>
vars == <<varsInd, varsSig, varsMain>>

(***************************************************************************)
(* Exact arithmetic with the IEEE special values of a float column.        *)
(***************************************************************************)
NaN == <<0, 0>>
Inf == <<1, 0>>

Abs(a) == IF a < 0 THEN -a ELSE a

RECURSIVE GCD(_, _)
GCD(a, b) == IF b = 0 THEN a ELSE GCD(b, a % b)

Norm(n, d) ==
    IF d = 1 THEN <<n, 1>>
    ELSE LET g == GCD(Abs(n), d) IN <<n \div g, d \div g>>

R(k) == <<k, 1>>

IsNaN(a) == a[2] = 0 /\ a[1] = 0
IsInf(a) == a[2] = 0 /\ a[1] = 1
Finite(a) == a[2] > 0

\* a + b : NaN propagates, inf absorbs
RAdd(a, b) ==
    IF Finite(a) /\ Finite(b) THEN Norm(a[1] * b[2] + b[1] * a[2], a[2] * b[2])
    ELSE IF IsNaN(a) \/ IsNaN(b) THEN NaN
    ELSE Inf

RNeg(a) == IF Finite(a) THEN <<-a[1], a[2]>> ELSE a

\* a - b for a finite b or a finite a (inf - inf does not occur in the program)
RSub(a, b) ==
    IF Finite(a) /\ Finite(b) THEN Norm(a[1] * b[2] - b[1] * a[2], a[2] * b[2])
    ELSE IF IsNaN(a) \/ IsNaN(b) THEN NaN
    ELSE IF IsInf(a) THEN Inf
    ELSE NaN

\* a * b for a >= 0 and b >= 0
RMul(a, b) ==
    IF Finite(a) /\ Finite(b) THEN Norm(a[1] * b[1], a[2] * b[2])
    ELSE IF IsNaN(a) \/ IsNaN(b) THEN NaN
    ELSE IF a[1] = 0 \/ b[1] = 0 THEN NaN
    ELSE Inf

\* a division that leaves every x/0 undefined
RDivNaNOnZero(a, b) ==
    IF Finite(a) /\ Finite(b)
    THEN (IF b[1] = 0 THEN NaN ELSE Norm(a[1] * b[2], a[2] * b[1]))
    ELSE IF IsNaN(a) \/ IsNaN(b) THEN NaN
    ELSE IF IsInf(b) THEN (IF IsInf(a) THEN NaN ELSE R(0))
    ELSE Inf

\* the division of two float columns, for a >= 0 and b >= 0:
\* x/0 is +inf for x > 0, 0/0 is NaN, x/inf is 0; no exception is raised
RDiv(a, b) ==
    IF Finite(a) /\ Finite(b)
    THEN (IF b[1] = 0 THEN (IF a[1] = 0 THEN NaN ELSE Inf)
          ELSE Norm(a[1] * b[2], a[2] * b[1]))
    ELSE IF IsNaN(a) \/ IsNaN(b) THEN NaN
    ELSE IF IsInf(b) THEN (IF IsInf(a) THEN NaN ELSE R(0))
    ELSE Inf

\* a > b : every comparison with NaN is False
RGt(a, b) ==
    IF Finite(a) /\ Finite(b) THEN a[1] * b[2] > b[1] * a[2]
    ELSE IF IsNaN(a) \/ IsNaN(b) THEN FALSE
    ELSE IF IsInf(b) THEN FALSE
    ELSE TRUE

RLt(a, b) == RGt(b, a)

\* a <= b : every comparison with NaN is False
RLe(a, b) ==
    IF Finite(a) /\ Finite(b) THEN a[1] * b[2] <= b[1] * a[2]
    ELSE IF IsNaN(a) \/ IsNaN(b) THEN FALSE
    ELSE IF IsInf(b) THEN TRUE
    ELSE FALSE

(***************************************************************************)
(* pandas column operations, as calculate_indicators uses them.            *)
(* Columns are sequences; bar i of the program is element i+1.             *)
(***************************************************************************)

\* one step of the recurrence, y = (1 - a) * prev + a * x with a = 2 / (span + 1),
\* which is ((span - 1) * prev + 2 * x) / (span + 1)
EwmStep(prev, x, span) ==
    Norm((span - 1) * prev[1] * x[2] + 2 * x[1] * prev[2], (span + 1) * prev[2] * x[2])

\* the recurrence run over bars lo..hi from the value prev of bar lo - 1
\* (the range is split in two so that the evaluation stays shallow)
RECURSIVE EwmFrom(_, _, _, _, _)
EwmFrom(prev, x, span, lo, hi) ==
    IF lo = hi THEN <<EwmStep(prev, x[lo], span)>>
    ELSE LET mid == (lo + hi) \div 2
             left == EwmFrom(prev, x, span, lo, mid)
         IN left \o EwmFrom(left[Len(left)], x, span, mid + 1, hi)

\* an EMA seeded with 0 instead of the first close
EwmSeedZero(x, span) == EwmFrom(R(0), x, span, 1, Len(x))

\* Series.ewm(span=span, adjust=False).mean() of a column of finite values:
\* y[0] = x[0], y[t] = (1 - a) * y[t-1] + a * x[t], a = 2 / (span + 1)
Ewm(x, span) ==
    IF Len(x) = 1 THEN <<x[1]>> ELSE <<x[1]>> \o EwmFrom(x[1], x, span, 2, Len(x))

\* a column as a sequence of its values
Col(f) == f \o <<>>

\* Series.diff(): NaN at bar 0, x[i] - x[i-1] after it
Diff(x) == Col([i \in 1..Len(x) |-> IF i = 1 THEN NaN ELSE RSub(x[i], x[i - 1])])

\* gain = delta.where(delta > 0, 0): the NaN of bar 0 fails delta > 0 and
\* is replaced by 0 like every non-positive delta
Gain(delta) == Col([i \in 1..Len(delta) |-> IF RGt(delta[i], R(0)) THEN delta[i] ELSE R(0)])

\* loss = -delta.where(delta < 0, 0)
Loss(delta) == Col([i \in 1..Len(delta) |-> IF RLt(delta[i], R(0)) THEN RNeg(delta[i]) ELSE R(0)])

\* x[lo] + ... + x[hi]
RECURSIVE SumRange(_, _, _)
SumRange(x, lo, hi) ==
    IF lo > hi THEN R(0)
    ELSE IF lo = hi THEN x[lo]
    ELSE LET mid == (lo + hi) \div 2
         IN RAdd(SumRange(x, lo, mid), SumRange(x, mid + 1, hi))

\* Series.rolling(w).mean(): NaN until w observations are in the window
RollingMean(x, w) ==
    [i \in 1..Len(x) |-> IF i < w THEN NaN ELSE RDiv(SumRange(x, i - w + 1, i), R(w))]

RMax(a, b) == IF RGt(a, b) THEN a ELSE b
RMin(a, b) == IF RLt(a, b) THEN a ELSE b

\* the largest / smallest of the finite values x[lo], ..., x[hi]
RECURSIVE MaxRange(_, _, _)
MaxRange(x, lo, hi) ==
    IF lo = hi THEN x[lo]
    ELSE LET mid == (lo + hi) \div 2
         IN RMax(MaxRange(x, lo, mid), MaxRange(x, mid + 1, hi))

RECURSIVE MinRange(_, _, _)
MinRange(x, lo, hi) ==
    IF lo = hi THEN x[lo]
    ELSE LET mid == (lo + hi) \div 2
         IN RMin(MinRange(x, lo, mid), MinRange(x, mid + 1, hi))

\* Series.rolling(w).max() / .min()
RollingMax(x, w) == Col([i \in 1..Len(x) |-> IF i < w THEN NaN ELSE MaxRange(x, i - w + 1, i)])
RollingMin(x, w) == Col([i \in 1..Len(x) |-> IF i < w THEN NaN ELSE MinRange(x, i - w + 1, i)])

AvgGain(x, period) == Col(RollingMean(Gain(Diff(x)), period))
AvgLoss(x, period) == Col(RollingMean(Loss(Diff(x)), period))

\* rs = avg_gain / avg_loss ; rsi = 100 - (100 / (1 + rs))
RsiOf(avg_gain, avg_loss) ==
    LET rs == RDiv(avg_gain, avg_loss)
    IN RSub(R(100), RDiv(R(100), RAdd(R(1), rs)))

Rsi(x, period) ==
    LET ag == AvgGain(x, period)
        al == AvgLoss(x, period)
    IN Col([i \in 1..Len(x) |-> RsiOf(ag[i], al[i])])

(***************************************************************************)
(* The frame.  A raw frame holds the columns the computations read (close, *)
(* high, low, volume; timestamp and open are only drawn on the chart);     *)
(* calculate_indicators adds ema_fast, ema_slow, rsi, resistance, support. *)
(***************************************************************************)
EmptyDF == [close |-> <<>>, high |-> <<>>, low |-> <<>>, volume |-> <<>>]

\* len(df) ; df.empty
LenDF(d) == Len(d.close)
IsEmpty(d) == LenDF(d) = 0

\* the sidebar sliders' default values
EMA_FAST_DEFAULT == 9
EMA_SLOW_DEFAULT == 20
RSI_PERIOD_DEFAULT == 14
SR_PERIOD_DEFAULT == 20

\* rolling(w).max() over the w bars before the current one (current excluded)
RollingMaxBefore(x, w) ==
    Col([i \in 1..Len(x) |-> IF i <= w THEN NaN ELSE MaxRange(x, i - w, i - 1)])

\* df['resistance'] = df['high'].rolling(SUPPORT_RESISTANCE_PERIOD).max()
Resistance(high, w) == RollingMax(high, w)

\* df['support'] = df['low'].rolling(SUPPORT_RESISTANCE_PERIOD).min()
Support(low, w) == RollingMin(low, w)

calculate_indicators(d, cfg) ==
    IF IsEmpty(d) THEN d
    ELSE [close      |-> d.close,
          high       |-> d.high,
          low        |-> d.low,
          volume     |-> d.volume,
          ema_fast   |-> Ewm(d.close, cfg.EMA_FAST),
          ema_slow   |-> Ewm(d.close, cfg.EMA_SLOW),
          rsi        |-> Rsi(d.close, cfg.RSI_PERIOD),
          resistance |-> Resistance(d.high, cfg.SUPPORT_RESISTANCE_PERIOD),
          support    |-> Support(d.low, cfg.SUPPORT_RESISTANCE_PERIOD)]

\* send_telegram_alert: False without sending when the alerts are off or a
\* credential is empty; otherwise True when bot.send_message returned and
\* False when it (or telegram.Bot) raised.  send_ok is that outcome.
send_telegram_alert(cfg, send_ok) ==
    IF ~cfg.TELEGRAM_ENABLED \/ cfg.TELEGRAM_BOT_TOKEN = "" \/ cfg.TELEGRAM_CHAT_ID = ""
    THEN "skipped"
    ELSE IF send_ok THEN "sent" ELSE "failed"

MIN_BARS == 50
VOLUME_WINDOW == 20
None == [type |-> "NONE"]

\* the five buy conditions without the crossover test on prev
buy_conditions_no_cross(d) ==
    LET cur == LenDF(d)
    IN /\ RGt(d.close[cur], d.resistance[cur])
       /\ RGt(d.volume[cur], RMul(RollingMean(d.volume, VOLUME_WINDOW)[cur], <<3, 2>>))
       /\ RGt(d.ema_fast[cur], d.ema_slow[cur])
       /\ RLt(R(40), d.rsi[cur]) /\ RLt(d.rsi[cur], R(70))

\* buy_conditions, with current = df.iloc[-1] and prev = df.iloc[-2]
buy_conditions(d) ==
    LET cur == LenDF(d)
        prev == LenDF(d) - 1
    IN /\ RGt(d.close[cur], d.resistance[cur])
       /\ RGt(d.volume[cur], RMul(RollingMean(d.volume, VOLUME_WINDOW)[cur], <<3, 2>>))
       /\ RGt(d.ema_fast[cur], d.ema_slow[cur])
       /\ RLt(R(40), d.rsi[cur]) /\ RLt(d.rsi[cur], R(70))
       /\ RLe(d.ema_fast[prev], d.ema_slow[prev])

\* a record whose second target is two risks away
buy_record_tp2_double(d) ==
    LET cur == LenDF(d)
        risk == RSub(d.close[cur], d.support[cur])
    IN [type  |-> "BUY",
        price |-> d.close[cur],
        sl    |-> d.support[cur],
        tp1   |-> RAdd(d.close[cur], risk),
        tp2   |-> RAdd(d.close[cur], RMul(risk, R(2))),
        rsi   |-> d.rsi[cur]]

\* risk = close - support and the returned dict
buy_record(d) ==
    LET cur == LenDF(d)
        risk == RSub(d.close[cur], d.support[cur])
    IN [type  |-> "BUY",
        price |-> d.close[cur],
        sl    |-> d.support[cur],
        tp1   |-> RAdd(d.close[cur], risk),
        tp2   |-> RAdd(d.close[cur], RMul(risk, <<3, 2>>)),
        rsi   |-> d.rsi[cur]]

\* check_signal: [signal, alert].  The alert is attempted only when the buy
\* conditions hold, and the record is returned only when the alert went out.
check_signal(d, cfg, send_ok) ==
    IF IsEmpty(d) \/ LenDF(d) < MIN_BARS
    THEN [signal |-> None, alert |-> "none"]
    ELSE IF buy_conditions(d)
         THEN LET a == send_telegram_alert(cfg, send_ok)
              IN [signal |-> IF a = "sent" THEN buy_record(d) ELSE None, alert |-> a]
         ELSE [signal |-> None, alert |-> "none"]

(***************************************************************************)
(* Configurations and fetched frames drawn by the specifications.          *)
(***************************************************************************)
MaxLen == 5       \* longest close column drawn in SpecInd
MaxPar == 3       \* largest span / period drawn in SpecInd
PriceLo == 10     \* the base price
PriceHi == 13     \* the highest price drawn in SpecInd
Swing == 3        \* how far a free bar's close lies from the base price
MaxExtra == 1     \* frames hold MIN_BARS - 1 .. MIN_BARS - 1 + MaxExtra bars

Cfg(enabled, token, chat, fast, slow, rsi, sr) ==
    [TELEGRAM_ENABLED |-> enabled,
     TELEGRAM_BOT_TOKEN |-> token,
     TELEGRAM_CHAT_ID |-> chat,
     EMA_FAST |-> fast,
     EMA_SLOW |-> slow,
     RSI_PERIOD |-> rsi,
     SUPPORT_RESISTANCE_PERIOD |-> sr]

\* the checkbox and the two text inputs: off (token and chat id never asked
\* for), on with an empty token, on with an empty chat id, on with both
TelegramSettings ==
    {<<FALSE, "", "">>, <<TRUE, "", "chat">>, <<TRUE, "token", "">>, <<TRUE, "token", "chat">>}

\* slider positions: the defaults, each slider at its minimum, and a fast
\* span above the slow one with the widest windows (no cross-field check)
SliderSettings ==
    {<<EMA_FAST_DEFAULT, EMA_SLOW_DEFAULT, RSI_PERIOD_DEFAULT, SR_PERIOD_DEFAULT>>,
     <<5, 10, 5, 10>>,
     <<20, 10, 21, 50>>}

Configs ==
    {Cfg(t[1], t[2], t[3], p[1], p[2], p[3], p[4]) : t \in TelegramSettings, p \in SliderSettings}

\* One bar as the exchange sends it.  The program never checks a bar, so a
\* frame may hold bars whose high lies under the close or whose low lies
\* above it: "ok" is a well-formed bar, "high_under" has its high under every
\* close drawn, "crossed" has in addition its low above every close drawn.
Shapes == {"ok", "high_under", "crossed"}
Bar(c, shape, v) ==
    [close  |-> R(c),
     high   |-> IF shape = "ok" THEN R(c + 1) ELSE R(PriceLo - Swing - 1),
     low    |-> IF shape = "crossed" THEN R(PriceLo + Swing + 1) ELSE R(c - 1),
     volume |-> R(v)]

FreeCloses == {PriceLo - Swing, PriceLo, PriceLo + Swing}

\* prev keeps the flat volume; latest may carry a volume spike
PrevBars == {Bar(c, sh, 1) : c \in FreeCloses, sh \in {"ok", "crossed"}}
LatestBars == {Bar(c, sh, v) : c \in FreeCloses, sh \in Shapes, v \in {1, 2}}

\* a flat history of n bars followed by the two bars check_signal reads
Frame(n, flat, prev, latest) ==
    LET bars == [i \in 1..(n + 2) |-> IF i <= n THEN flat ELSE IF i = n + 1 THEN prev ELSE latest]
    IN [close  |-> Col([i \in 1..(n + 2) |-> bars[i].close]),
        high   |-> Col([i \in 1..(n + 2) |-> bars[i].high]),
        low    |-> Col([i \in 1..(n + 2) |-> bars[i].low]),
        volume |-> Col([i \in 1..(n + 2) |-> bars[i].volume])]

Frames ==
    {Frame(n, Bar(PriceLo, sh, 1), prev, latest) :
        n \in (MIN_BARS - 3)..(MIN_BARS - 3 + MaxExtra),
        sh \in {"ok", "crossed"}, prev \in PrevBars, latest \in LatestBars}

\* the variables of a part that a specification does not exercise stay put
MainIdle ==
    /\ pc = "idle"
    /\ sym = 1
    /\ attempt = 0
    /\ error_count = 0
    /\ all_data = <<>>
    /\ signals = <<>>
    /\ cache = <<>>
    /\ calls = <<>>
    /\ waits = 0
    /\ last_eval = <<>>

IndIdle ==
    /\ close_col = <<>>
    /\ n_par = 1
    /\ ema_col = <<>>
    /\ rsi_col = <<>>

SigIdle ==
    /\ config = Cfg(FALSE, "", "", EMA_FAST_DEFAULT, EMA_SLOW_DEFAULT,
                    RSI_PERIOD_DEFAULT, SR_PERIOD_DEFAULT)
    /\ df = EmptyDF
    /\ stage = "idle"
    /\ signal = None
    /\ alert = "none"

(***************************************************************************)
(* SpecInd: the indicator columns as pure functions of a close column.     *)
(***************************************************************************)

RECURSIVE SeqsUpTo(_, _)
SeqsUpTo(S, k) ==
    IF k = 0 THEN {<<>>}
    ELSE LET shorter == SeqsUpTo(S, k - 1)
         IN shorter \cup {Append(s, e) : s \in {t \in shorter : Len(t) = k - 1}, e \in S}

CloseCols == {s \in SeqsUpTo({R(p) : p \in PriceLo..PriceHi}, MaxLen) : Len(s) >= 1}

InitInd ==
    /\ close_col \in CloseCols
    /\ n_par \in 1..MaxPar
    /\ ema_col = <<>>
    /\ rsi_col = <<>>
    /\ SigIdle
    /\ MainIdle

\* df['ema_*'] = df['close'].ewm(span=..., adjust=False).mean()
ApplyEwm ==
    /\ ema_col = <<>>
    /\ ema_col' = Ewm(close_col, n_par)
    /\ UNCHANGED <<close_col, n_par, rsi_col, notInd>>

\* delta ... df['rsi'] = 100 - (100 / (1 + rs))
ApplyRsi ==
    /\ rsi_col = <<>>
    /\ rsi_col' = Rsi(close_col, n_par)
    /\ UNCHANGED <<close_col, n_par, ema_col, notInd>>

NextInd == ApplyEwm \/ ApplyRsi

SpecInd == InitInd /\ [][NextInd]_vars

(***************************************************************************)
(* SpecSignal: one pass of the pipeline, df = calculate_indicators(df)     *)
(* then check_signal(df, symbol), on a fetched frame.                      *)
(***************************************************************************)
InitSignal ==
    /\ config \in Configs
    /\ df \in Frames
    /\ stage = "raw"
    /\ signal = None
    /\ alert = "none"
    /\ IndIdle
    /\ MainIdle

\* df = calculate_indicators(df)
CalculateIndicators ==
    /\ stage = "raw"
    /\ df' = calculate_indicators(df, config)
    /\ stage' = "computed"
    /\ UNCHANGED <<config, signal, alert, notSig>>

\* signals[symbol] = check_signal(df, symbol)
CheckSignal ==
    /\ stage = "computed"
    /\ \E send_ok \in BOOLEAN :
          LET r == check_signal(df, config, send_ok)
          IN /\ signal' = r.signal
             /\ alert' = r.alert
    /\ stage' = "checked"
    /\ UNCHANGED <<config, df, notSig>>

NextSignal == CalculateIndicators \/ CheckSignal

SpecSignal == InitSignal /\ [][NextSignal]_vars

(***************************************************************************)
(* Spec: the poll loop.  One script run is main() from its first line to   *)
(* the st.rerun() that ends it; time is counted in seconds.                *)
(***************************************************************************)
SYMBOLS == <<"BTCUSDT", "ETHUSDT", "SOLUSDT">>
RETRIES == 3            \* get_data_with_retry(symbol, interval, retries=3)
RETRY_DELAY == 5        \* time.sleep(5) between two attempts
CACHE_TTL == 60         \* @st.cache_data(ttl=60)
REQUEST_TIMEOUT == 15   \* requests.get(url, timeout=15)
MAX_ERRORS == 3         \* if error_count > 3
PERSISTENT_SLEEP == 10
CYCLE_SLEEP == 60
CRITICAL_SLEEP == 30

\* the frames the exchange answers with in Spec: one on which the five buy
\* conditions hold under the default sliders, and a flat well-formed one
FxBreakout ==
    Frame(MIN_BARS - 2, Bar(PriceLo, "ok", 1),
          Bar(PriceLo - Swing, "crossed", 1), Bar(PriceLo + Swing, "high_under", 2))
FxQuiet ==
    Frame(MIN_BARS - 2, Bar(PriceLo, "ok", 1), Bar(PriceLo, "ok", 1), Bar(PriceLo, "ok", 1))
Fixtures == {FxBreakout, FxQuiet}

MainConfigs ==
    {Cfg(t[1], t[2], t[3], EMA_FAST_DEFAULT, EMA_SLOW_DEFAULT, RSI_PERIOD_DEFAULT,
         SR_PERIOD_DEFAULT) : t \in TelegramSettings}

\* df = calculate_indicators(df) in main; the result for the two frames of
\* Spec under its sliders is worked out once
DefaultConfig ==
    Cfg(FALSE, "", "", EMA_FAST_DEFAULT, EMA_SLOW_DEFAULT, RSI_PERIOD_DEFAULT, SR_PERIOD_DEFAULT)
BreakoutIndicators == calculate_indicators(FxBreakout, DefaultConfig)
QuietIndicators == calculate_indicators(FxQuiet, DefaultConfig)
IndicatorsOf(d, cfg) ==
    IF d = FxBreakout THEN BreakoutIndicators
    ELSE IF d = FxQuiet THEN QuietIndicators
    ELSE calculate_indicators(d, cfg)

Keys == {SYMBOLS[i] : i \in 1..Len(SYMBOLS)}

\* a dict with one more key
Put(dict, key, value) == [k \in (DOMAIN dict) \cup {key} |-> IF k = key THEN value ELSE dict[k]]

NoEntry == [valid |-> FALSE, val |-> EmptyDF, age |-> 0]
NoEval == [seen |-> FALSE, frame |-> EmptyDF, signal |-> None]

\* d seconds pass: an entry that reaches its ttl is gone
Elapse(c, d) ==
    [k \in DOMAIN c |->
        IF c[k].valid /\ c[k].age + d < CACHE_TTL THEN [c[k] EXCEPT !.age = @ + d] ELSE NoEntry]

Init ==
    /\ config \in MainConfigs
    /\ df = EmptyDF
    /\ stage = "idle"
    /\ signal = None
    /\ alert = "none"
    /\ pc = "fetch"
    /\ sym = 1
    /\ attempt = 0
    /\ error_count = 0
    /\ all_data = <<>>
    /\ signals = <<>>
    /\ cache = [k \in Keys |-> NoEntry]
    /\ calls = <<>>
    /\ waits = 0
    /\ last_eval = [k \in Keys |-> NoEval]
    /\ IndIdle

\* a new script run that keeps the error count of the run before
StRerunKeepsCount ==
    /\ pc' = "fetch"
    /\ sym' = 1
    /\ attempt' = 0
    /\ error_count' = error_count
    /\ all_data' = <<>>
    /\ signals' = <<>>
    /\ df' = EmptyDF
    /\ calls' = <<>>
    /\ waits' = 0

\* st.rerun(): the script run ends and main() starts again from the top
\* (error_count = 0, empty all_data and signals, first symbol)
StRerun ==
    /\ pc' = "fetch"
    /\ sym' = 1
    /\ attempt' = 0
    /\ error_count' = 0
    /\ all_data' = <<>>
    /\ signals' = <<>>
    /\ df' = EmptyDF
    /\ calls' = <<>>
    /\ waits' = 0

\* a delay after every failed attempt
NeedsDelayAlways(a) == TRUE

\* if attempt < retries - 1: time.sleep(5)
NeedsDelay(a) == a < RETRIES - 1

\* get_data_with_retry after one call of get_binance_data gave frame:
\* return it when it holds data; otherwise sleep and try again, or fall out
\* of the loop and return an empty frame
AfterAttempt(frame) ==
    /\ calls' = Append(calls, ~IsEmpty(frame))
    /\ IF ~IsEmpty(frame)
       THEN /\ df' = frame
            /\ pc' = "process"
       ELSE /\ df' = EmptyDF
            /\ pc' = IF NeedsDelay(attempt) THEN "backoff"
                     ELSE IF attempt + 1 < RETRIES THEN "fetch" ELSE "process"
    /\ attempt' = IF ~IsEmpty(frame) \/ NeedsDelay(attempt) \/ attempt + 1 >= RETRIES
                  THEN attempt ELSE attempt + 1

\* get_binance_data served from the cache: the stored frame, no request
FetchCached ==
    /\ pc = "fetch"
    /\ cache[SYMBOLS[sym]].valid
    /\ AfterAttempt(cache[SYMBOLS[sym]].val)
    /\ UNCHANGED <<config, stage, signal, alert, sym, error_count, all_data, signals,
                   cache, waits, last_eval, varsInd>>

\* get_binance_data sending the request: a frame, or an empty frame after
\* any exception (network error, timeout, bad status, malformed body);
\* either result is stored in the cache
FetchRequest ==
    /\ pc = "fetch"
    /\ ~cache[SYMBOLS[sym]].valid
    /\ \E frame \in Fixtures \cup {EmptyDF} :
       \E took \in (IF IsEmpty(frame) THEN {0, REQUEST_TIMEOUT} ELSE {0}) :
          /\ AfterAttempt(frame)
          /\ cache' = [Elapse(cache, took) EXCEPT
                          ![SYMBOLS[sym]] = [valid |-> TRUE, val |-> frame, age |-> 0]]
    /\ UNCHANGED <<config, stage, signal, alert, sym, error_count, all_data, signals,
                   waits, last_eval, varsInd>>

\* time.sleep(5), then the next iteration of the retry loop
Backoff ==
    /\ pc = "backoff"
    /\ cache' = Elapse(cache, RETRY_DELAY)
    /\ waits' = waits + 1
    /\ attempt' = attempt + 1
    /\ pc' = IF attempt + 1 < RETRIES THEN "fetch" ELSE "process"
    /\ UNCHANGED <<config, df, stage, signal, alert, sym, error_count, all_data, signals,
                   calls, last_eval, varsInd>>

\* the for loop of main moves to the next symbol, or to the rendering
NextSymbol ==
    IF sym < Len(SYMBOLS)
    THEN /\ sym' = sym + 1
         /\ pc' = "fetch"
         /\ attempt' = 0
         /\ calls' = <<>>
         /\ waits' = 0
    ELSE /\ pc' = "render"
         /\ UNCHANGED <<sym, attempt, calls, waits>>

\* if not df.empty: indicators, all_data, signals
ProcessData ==
    /\ pc = "process"
    /\ ~IsEmpty(df)
    /\ \E send_ok \in BOOLEAN :
          LET augmented == IndicatorsOf(df, config)
              r == check_signal(augmented, config, send_ok)
          IN /\ all_data' = Put(all_data, SYMBOLS[sym], augmented)
             /\ signals' = Put(signals, SYMBOLS[sym], r.signal)
             /\ last_eval' = [last_eval EXCEPT
                    ![SYMBOLS[sym]] = [seen |-> TRUE, frame |-> df, signal |-> r.signal]]
    /\ NextSymbol
    /\ UNCHANGED <<config, df, stage, signal, alert, error_count, cache, varsInd>>

\* else: warning, error_count += 1, and past the threshold the error
\* message, time.sleep(10) and st.rerun()
FetchFailed ==
    /\ pc = "process"
    /\ IsEmpty(df)
    /\ error_count' = error_count + 1
    /\ last_eval' = [last_eval EXCEPT ![SYMBOLS[sym]] = NoEval]
    /\ IF error_count + 1 > MAX_ERRORS
       THEN /\ pc' = "persistent"
            /\ UNCHANGED <<sym, attempt, calls, waits>>
       ELSE NextSymbol
    /\ UNCHANGED <<config, df, stage, signal, alert, all_data, signals, cache, varsInd>>

\* the placeholder is drawn and the refresh button was not clicked
RenderShown ==
    /\ pc = "render"
    /\ pc' = "cycle_end"
    /\ UNCHANGED <<config, df, stage, signal, alert, sym, attempt, error_count, all_data,
                   signals, cache, calls, waits, last_eval, varsInd>>

\* if st.button(...): st.cache_data.clear(); st.rerun()
RefreshClicked ==
    /\ pc = "render"
    /\ cache' = [k \in Keys |-> NoEntry]
    /\ StRerun
    /\ UNCHANGED <<config, stage, signal, alert, last_eval, varsInd>>

\* a streamlit or plotly call in the try block raises: except Exception
RenderRaised ==
    /\ pc = "render"
    /\ pc' = "critical"
    /\ UNCHANGED <<config, df, stage, signal, alert, sym, attempt, error_count, all_data,
                   signals, cache, calls, waits, last_eval, varsInd>>

\* time.sleep(...) and st.rerun() at the end of the cycle, in the except
\* handler, or in the persistent-problem branch
SleepAndRerun ==
    /\ pc \in {"cycle_end", "critical", "persistent"}
    /\ cache' = Elapse(cache, IF pc = "cycle_end" THEN CYCLE_SLEEP
                              ELSE IF pc = "critical" THEN CRITICAL_SLEEP
                              ELSE PERSISTENT_SLEEP)
    /\ StRerun
    /\ UNCHANGED <<config, stage, signal, alert, last_eval, varsInd>>

Next ==
    \/ FetchCached
    \/ FetchRequest
    \/ Backoff
    \/ ProcessData
    \/ FetchFailed
    \/ RenderShown
    \/ RefreshClicked
    \/ RenderRaised
    \/ SleepAndRerun

Spec == Init /\ [][Next]_vars

(***************************************************************************)
(* Claims about the indicator columns (checked under SpecInd).             *)
(***************************************************************************)
StrictlyIncreasing(x) == \A i \in 2..Len(x) : RGt(x[i], x[i - 1])

ExampleCloses == <<R(10), R(11), R(12), R(11), R(10)>>
ExampleEma == <<R(10), <<21, 2>>, <<45, 4>>, <<89, 8>>, <<169, 16>>>>

\* C4: the EMA column is defined at every bar and is the adjust=false
\* recurrence ema[0] = close[0], (span+1)*ema[i] = 2*close[i] + (span-1)*ema[i-1];
\* span 3 on closes [10,11,12,11,10] gives [10, 10.5, 11.25, 11.125, 10.5625].
ThmC4_EmaRecurrence ==
    ema_col # <<>> =>
        /\ Len(ema_col) = Len(close_col)
        /\ \A i \in 1..Len(ema_col) : Finite(ema_col[i])
        /\ ema_col[1] = close_col[1]
        /\ \A i \in 2..Len(ema_col) :
              RMul(R(n_par + 1), ema_col[i])
                 = RAdd(RMul(R(2), close_col[i]), RMul(R(n_par - 1), ema_col[i - 1]))
        /\ (close_col = ExampleCloses /\ n_par = 3) => ema_col = ExampleEma

WitC4_Example ==
    /\ close_col = ExampleCloses
    /\ n_par = 3
    /\ ema_col = ExampleEma

\* C5 (as claimed): rsi is undefined at every bar i < period, and from bar
\* period on the averages are the means of the period real deltas
\* close[j] - close[j-1], j in (i - period, i].
ClaimC5_RsiNeedsPeriodDeltas ==
    rsi_col # <<>> =>
        \A i \in 1..Len(rsi_col) :
            IF i <= n_par
            THEN IsNaN(rsi_col[i])
            ELSE LET d == Diff(close_col)
                     g == RDiv(SumRange(Gain(d), i - n_par + 1, i), R(n_par))
                     l == RDiv(SumRange(Loss(d), i - n_par + 1, i), R(n_par))
                 IN rsi_col[i] = RsiOf(g, l)

\* C6: avg_loss = 0 with avg_gain > 0 gives rsi = 100 exactly; on a strictly
\* increasing close column rsi = 100 at every bar holding period real deltas;
\* a defined rsi lies in [0, 100].
ThmC6_RsiSaturates ==
    rsi_col # <<>> =>
        LET ag == AvgGain(close_col, n_par)
            al == AvgLoss(close_col, n_par)
        IN \A i \in 1..Len(rsi_col) :
              /\ (al[i] = R(0) /\ RGt(ag[i], R(0))) => rsi_col[i] = R(100)
              /\ (StrictlyIncreasing(close_col) /\ i > n_par) => rsi_col[i] = R(100)
              /\ ~IsNaN(rsi_col[i]) => (RLe(R(0), rsi_col[i]) /\ RLe(rsi_col[i], R(100)))

WitC6_Increasing ==
    /\ Len(close_col) >= 4
    /\ StrictlyIncreasing(close_col)
    /\ n_par = 2
    /\ rsi_col # <<>>
    /\ rsi_col[Len(rsi_col)] = R(100)
    /\ AvgLoss(close_col, n_par)[Len(close_col)] = R(0)

(***************************************************************************)
(* Claims about the signal evaluator (checked under SpecSignal).  The buy  *)
(* conditions are restated here on the frame's latest and previous bars.   *)
(***************************************************************************)
Latest(col) == col[Len(col)]
Previous(col) == col[Len(col) - 1]

Breakout(d) == RGt(Latest(d.close), Latest(d.resistance))
VolumeSpike(d) ==
    LET n == Len(d.volume)
    IN RGt(RMul(R(40), Latest(d.volume)), RMul(R(3), SumRange(d.volume, n - 19, n)))
TrendUp(d) == RGt(Latest(d.ema_fast), Latest(d.ema_slow))
RsiInBand(d) == RGt(Latest(d.rsi), R(40)) /\ RGt(R(70), Latest(d.rsi))
CrossBefore(d) == RLe(Previous(d.ema_fast), Previous(d.ema_slow))

HeldCount(d) ==
    Cardinality({k \in 1..5 : <<Breakout(d), VolumeSpike(d), TrendUp(d),
                               RsiInBand(d), CrossBefore(d)>>[k]})
AllFive(d) == HeldCount(d) = 5

UsedValues(d) ==
    {Latest(d.close), Latest(d.resistance), Latest(d.volume), Latest(d.ema_fast),
     Latest(d.ema_slow), Latest(d.rsi), Previous(d.ema_fast), Previous(d.ema_slow)}

WellFormed(d) ==
    \A i \in 1..LenDF(d) :
        /\ RLe(d.close[i], d.high[i])
        /\ RLe(d.low[i], d.close[i])
        /\ RLe(R(0), d.low[i]) /\ RLe(R(0), d.volume[i])

AlertsConfigured ==
    config.TELEGRAM_ENABLED /\ config.TELEGRAM_BOT_TOKEN # "" /\ config.TELEGRAM_CHAT_ID # ""

\* C1 (as claimed): whenever a frame of at least 50 bars satisfies the five
\* buy conditions, check_signal returns a BUY record, whatever the notifier
\* did (skipped, failed or sent).
ClaimC1_DetectionDecoupled ==
    (stage = "checked" /\ LenDF(df) >= 50 /\ AllFive(df)) => signal.type = "BUY"

\* C2: a signal is returned only for a frame of at least 50 bars on which all
\* five conditions hold; a frame shorter than 50 bars, a frame on which
\* exactly one condition fails, and a frame with an undefined value among
\* those the conditions read, all give None.
ThmC2_SignalOnlyIfAllFive ==
    stage = "checked" =>
        /\ signal # None => (LenDF(df) >= 50 /\ AllFive(df))
        /\ LenDF(df) < 50 => signal = None
        /\ (LenDF(df) >= 50 /\ HeldCount(df) = 4) => signal = None
        /\ (LenDF(df) >= 50 /\ \E v \in UsedValues(df) : IsNaN(v)) => signal = None

WitC2_OnlyCrossoverFails ==
    /\ stage = "checked"
    /\ LenDF(df) >= 50
    /\ AlertsConfigured
    /\ Breakout(df) /\ VolumeSpike(df) /\ TrendUp(df) /\ RsiInBand(df)
    /\ ~CrossBefore(df)
    /\ signal = None

\* C3: a returned signal has price = close, sl = support, tp1 = close + risk,
\* 2 * tp2 = 2 * close + 3 * risk and rsi = the latest rsi, with
\* risk = close - support; the sign of risk is not tested, so a frame whose
\* alert went out is answered with that record also when support >= close.
ThmC3_SignalPayload ==
    stage = "checked" =>
        LET close == Latest(df.close)
            support == Latest(df.support)
            risk == RSub(close, support)
        IN /\ signal # None =>
                /\ signal.type = "BUY"
                /\ signal.price = close
                /\ signal.sl = support
                /\ signal.tp1 = RAdd(close, risk)
                /\ RMul(R(2), signal.tp2) = RAdd(RMul(R(2), close), RMul(R(3), risk))
                /\ signal.rsi = Latest(df.rsi)
           /\ (LenDF(df) >= 50 /\ AllFive(df) /\ alert = "sent") => signal # None

WitC3_NonPositiveRisk ==
    /\ stage = "checked"
    /\ signal # None
    /\ RLe(Latest(df.close), Latest(df.support))
    /\ RLe(signal.tp1, signal.price)
    /\ RLe(signal.tp2, signal.price)

\* C9: a defined resistance is never below the bar's own high, so on a frame
\* of well-formed bars (high >= close) the breakout condition is false and
\* check_signal returns None.
ThmC9_NoSignalOnWellFormedBars ==
    /\ stage \in {"computed", "checked"} =>
          \A i \in 1..LenDF(df) :
              IsNaN(df.resistance[i]) \/ RLe(df.high[i], df.resistance[i])
    /\ (stage = "checked" /\ WellFormed(df)) =>
          /\ LenDF(df) >= 50 => ~Breakout(df)
          /\ signal = None

WitC9_OtherFourHold ==
    /\ stage = "checked"
    /\ WellFormed(df)
    /\ LenDF(df) >= 50
    /\ AlertsConfigured
    /\ VolumeSpike(df) /\ TrendUp(df) /\ RsiInBand(df) /\ CrossBefore(df)
    /\ signal = None

(***************************************************************************)
(* Claims about the poll loop (checked under Spec).                        *)
(***************************************************************************)
InRetry == pc \in {"fetch", "backoff"}
Returned == pc = "process"

\* C7 (as claimed): a symbol whose frame is the one evaluated in the cycle
\* before, under the same configuration, gets the same result again: a
\* signal after a signal, None after None.
ClaimC7_SameFrameSameResult ==
    [][(pc = "process" /\ ~IsEmpty(df) /\ pc' # "process"
          /\ last_eval[SYMBOLS[sym]].seen /\ last_eval[SYMBOLS[sym]].frame = df)
       => signals'[SYMBOLS[sym]] = last_eval[SYMBOLS[sym]].signal]_vars

\* C8: get_data_with_retry makes at most 3 calls, one after the other; every
\* call before the last gave nothing; it sleeps once between a failed call
\* and the next one and not after the last; it returns the first frame
\* holding data at once, and an empty frame exactly after 3 empty results;
\* while it runs, its next step is always possible (it never blocks, and
\* calls + waits grows with every step, so it ends); a failed request is an
\* empty frame, never an exception reaching main.
ThmC8_RetryAtMostThree ==
    (InRetry \/ Returned) =>
        /\ Len(calls) <= 3
        /\ waits <= 2
        /\ \A i \in 1..(Len(calls) - 1) : ~calls[i]
        /\ pc = "fetch" => (waits = Len(calls) /\ Len(calls) < 3 /\ attempt = Len(calls)
                            /\ \A i \in 1..Len(calls) : ~calls[i])
        /\ pc = "backoff" => (waits = Len(calls) - 1 /\ Len(calls) \in 1..2
                              /\ ~calls[Len(calls)])
        /\ Returned =>
              /\ Len(calls) >= 1
              /\ waits = Len(calls) - 1
              /\ ~IsEmpty(df) <=> calls[Len(calls)]
              /\ ~IsEmpty(df) => (cache[SYMBOLS[sym]].valid /\ df = cache[SYMBOLS[sym]].val)
              /\ IsEmpty(df) => Len(calls) = 3
        /\ InRetry => ENABLED (FetchCached \/ FetchRequest \/ Backoff)

WitC8_ThreeFailures ==
    /\ Returned
    /\ IsEmpty(df)
    /\ Len(calls) = 3
    /\ waits = 2

\* C10: error_count counts the symbols of this run whose fetch failed, once
\* each; it never exceeds 3 = len(SYMBOLS), so the branch behind
\* error_count > 3 is never entered, and every run that reaches the
\* rendering has handled all three symbols, each one either evaluated or
\* counted as failed.
Handled == IF pc \in {"fetch", "backoff", "process"} THEN sym - 1 ELSE Len(SYMBOLS)

ThmC10_ErrorCountBounded ==
    /\ error_count <= 3
    /\ pc # "persistent"
    /\ error_count = Cardinality({i \in 1..Handled : SYMBOLS[i] \notin DOMAIN all_data})
    /\ DOMAIN all_data = DOMAIN signals
    /\ DOMAIN all_data \subseteq {SYMBOLS[i] : i \in 1..Handled}
    /\ pc = "render" => Cardinality(DOMAIN all_data) + error_count = 3

WitC10_FailureThenData ==
    /\ pc = "render"
    /\ error_count = 1
    /\ SYMBOLS[1] \notin DOMAIN all_data
    /\ {SYMBOLS[2], SYMBOLS[3]} \subseteq DOMAIN all_data

====
